---- MODULE Spec2Model ----
(***************************************************************************)
(* Hybrid provider dispatch and conversation state of the chat assistant.  *)
(*                                                                         *)
(* The stores (useUser, useConfig, useAgent, useUI) and the ChatAssistant  *)
(* component's sendMessage are modelled from src/unnamed/part_000 (the     *)
(* hybrid version of src/lib/state.ts and src/components/ChatAssistant.tsx)*)
(*                                                                         *)
(* Text is a sequence of string tokens: typed input is a sequence of       *)
(* one-character strings, a template literal is the sequence of its        *)
(* pieces.  Message timestamps are not modelled.                           *)
(*                                                                         *)
(* An event handler runs against the state of the last committed render;   *)
(* React commits the updates of one discrete event before the next event   *)
(* is dispatched, so each handler below reads the current state, and the   *)
(* values sendMessage closes over (input, attachments, chatMessages,       *)
(* provider, ...) are fixed for the whole asynchronous invocation.         *)
(***************************************************************************)
EXTENDS Naturals, Sequences, FiniteSets, TLC

VARIABLES
    name,               \* useUser.name
    provider,           \* useConfig.provider
    localEndpoint,      \* useConfig.localEndpoint
    localModelId,       \* useConfig.localModelId
    chatMessages,       \* useUI.chatMessages
    isCodingMode,       \* useUI.isCodingMode
    input,              \* ChatAssistant: useState('')
    loading,            \* ChatAssistant: useState(false)
    attachments,        \* ChatAssistant: useState([])
    reading,            \* files whose FileReader has not fired onload yet
    inflight,           \* suspended sendMessage invocations (awaiting)
    requests,           \* number of outbound requests issued so far
    lastRequest,        \* the outbound request issued last
    appendCalls,        \* the arguments of the addChatMessage calls, in call order
    current,            \* useAgent.current
    availablePresets,   \* useAgent.availablePresets
    availablePersonal,  \* useAgent.availablePersonal
    lastCall            \* the last store / component call and what it did

configVars == <<provider, localEndpoint, localModelId>>
chatVars == <<name, provider, localEndpoint, localModelId, chatMessages,
              isCodingMode, input, loading, attachments, reading, inflight,
              requests, lastRequest, appendCalls>>
agentVars == <<current, availablePresets, availablePersonal>>
vars == <<name, provider, localEndpoint, localModelId, chatMessages,
          isCodingMode, input, loading, attachments, reading, inflight,
          requests, lastRequest, appendCalls, current, availablePresets, availablePersonal, lastCall>>

(***************************************************************************)
(* Bounds of the model.                                                    *)
(***************************************************************************)
MaxSends == 2
MaxAttachments == 2
MaxAttachSends == 1
MaxPersonal == 2

(***************************************************************************)
(* Input alphabets.                                                        *)
(***************************************************************************)
Whitespace == {" ", "\n"}
InputTexts == {<<>>, <<" ">>, <<"a">>, <<" ", "b">>}
Names == {"", "Ann"}
Endpoints == {<<"http://localhost:11434", "/", "v1">>,
              <<"http://localhost:11434", "/", "v1", "/">>,
              <<"http://localhost:11434", "/", "v1", "/", "/">>}
ModelIds == {"llama3", "phi3"}
Providers == {"gemini", "local"}

\* A selected file: its name, its MIME type (split after the "/" of the top
\* level type) and the data URL readAsDataURL yields, split at its commas.
Files ==
    {[name |-> "pic.png", type |-> <<"image/", "png">>,
      dataUrl |-> <<"data:image/png;base64", "AAAA">>],
     [name |-> "notes.txt", type |-> <<"text/", "plain">>,
      dataUrl |-> <<"data:text/plain;base64", "BBBB">>]}

(***************************************************************************)
(* String helpers.                                                         *)
(***************************************************************************)
RECURSIVE TrimStart(_)
TrimStart(s) ==
    IF s # <<>> /\ Head(s) \in Whitespace THEN TrimStart(Tail(s)) ELSE s

RECURSIVE TrimEnd(_)
TrimEnd(s) ==
    IF s # <<>> /\ s[Len(s)] \in Whitespace
    THEN TrimEnd(SubSeq(s, 1, Len(s) - 1))
    ELSE s

\* String.prototype.trim
Trim(s) == TrimEnd(TrimStart(s))

\* att.type.startsWith('image/')
StartsWithImage(type) == Len(type) >= 1 /\ type[1] = "image/"

\* localEndpoint.replace(/\/$/, ''), the identity mutant first
KeepTrailingSlash(s) == s

StripTrailingSlash(s) ==
    IF s # <<>> /\ s[Len(s)] = "/" THEN SubSeq(s, 1, Len(s) - 1) ELSE s

ChatCompletionsPath == <<"/", "chat", "/", "completions">>

\* `${localEndpoint.replace(/\/$/, '')}/chat/completions`
CompletionsUrl(endpoint) == StripTrailingSlash(endpoint) \o ChatCompletionsPath

(***************************************************************************)
(* useUI.addChatMessage                                                    *)
(***************************************************************************)
PrependChatMessage(msgs, msg) == <<msg>> \o msgs

addChatMessage(msgs, msg) == Append(msgs, msg)

CountRole(msgs, role) == Cardinality({i \in DOMAIN msgs : msgs[i].role = role})

(***************************************************************************)
(* Pieces of sendMessage                                                   *)
(***************************************************************************)
\* reader.onload: { name: file.name, type: file.type, data: base64 } with
\* base64 = result.split(',')[1]
Attachment(file) ==
    [name |-> file.name, type |-> file.type, data |-> file.dataUrl[2]]

SendWhileLoading(text, atts, busy) == ~(Trim(text) = <<>> /\ Len(atts) = 0)

SendUntrimmed(text, atts, busy) == ~((text = <<>> /\ Len(atts) = 0) \/ busy)

\* the negation of the early return of sendMessage
CanSend(text, atts, busy) ==
    ~((Trim(text) = <<>> /\ Len(atts) = 0) \/ busy)

CodingInstruction ==
    <<"You are an anonymous coding agent. You are elite, pithy, and focused on executing and debugging complex code.">>

SystemInstruction(coding, userName) ==
    IF coding
    THEN CodingInstruction
    ELSE <<"You are a helpful personal assistant helping ",
           IF userName # "" THEN userName ELSE "the user",
           ".">>

UserMessageWithoutAttachments(text, atts) ==
    [role |-> "user", text |-> text, attachments |-> <<>>]

UserMessage(text, atts) ==
    [role |-> "user", text |-> text, attachments |-> atts]

\* the mutant mentions every attachment, image or not
RECURSIVE MentionEveryFile(_, _)
MentionEveryFile(text, atts) ==
    IF atts = <<>> THEN text
    ELSE MentionEveryFile(text \o <<"\n[Attached File: ", Head(atts).name, "]">>,
                          Tail(atts))

\* parts: the text part, extended by a mention per non-image attachment, then
\* one inlineData part per image attachment
RECURSIVE PartsText(_, _)
PartsText(text, atts) ==
    IF atts = <<>> THEN text
    ELSE LET att == Head(atts)
         IN PartsText(IF StartsWithImage(att.type)
                      THEN text
                      ELSE text \o <<"\n[Attached File: ", att.name, "]">>,
                      Tail(atts))

RECURSIVE InlineParts(_)
InlineParts(atts) ==
    IF atts = <<>> THEN <<>>
    ELSE LET att == Head(atts)
         IN (IF StartsWithImage(att.type)
             THEN <<[inlineData |-> [mimeType |-> att.type, data |-> att.data]]>>
             ELSE <<>>) \o InlineParts(Tail(atts))

Parts(text, atts) == <<[text |-> PartsText(text, atts)]>> \o InlineParts(atts)

CloudRequest(text, atts, coding, userName) ==
    [target |-> "gemini",
     model |-> "gemini-3-pro-preview",
     contents |-> <<[role |-> "user", parts |-> Parts(text, atts)]>>,
     config |-> [systemInstruction |-> SystemInstruction(coding, userName),
                 tools |-> IF coding THEN <<"googleSearch">> ELSE <<>>]]

\* role: m.role === 'user' ? 'user' : 'assistant'
MappedRole(m) == IF m.role = "user" THEN "user" ELSE "assistant"

ReplayMessages(history, sys, text) ==
    <<[role |-> "system", content |-> sys]>>
    \o [i \in 1 .. Len(history) |->
            [role |-> MappedRole(history[i]), content |-> history[i].text]]
    \o <<[role |-> "user", content |-> text]>>

\* the mutant replays the store as it is after the optimistic append
ReplayWithOptimistic(history, sys, text) ==
    ReplayMessages(Append(history, UserMessage(text, <<>>)), sys, text)

\* messages: [system, ...chatMessages.map(...), { role: 'user', content: input }]
LocalMessages(history, sys, text) == ReplayMessages(history, sys, text)

LocalRequest(endpoint, modelId, history, text, coding, userName) ==
    [target |-> "local",
     url |-> CompletionsUrl(endpoint),
     method |-> "POST",
     body |-> [model |-> modelId,
               messages |-> LocalMessages(history,
                                          SystemInstruction(coding, userName),
                                          text),
               temperature |-> "0.7"]]

(***************************************************************************)
(* Responses.  A JSON value is tagged with its type; Get and At are the    *)
(* optional-chaining reads a?.f and a?.[i].                                *)
(***************************************************************************)
JUndefined == [t |-> "undefined"]
JNull == [t |-> "null"]
JStr(s) == [t |-> "string", v |-> s]
JObj(fields) == [t |-> "object", v |-> fields]
JArr(elems) == [t |-> "array", v |-> elems]

IsNullish(j) == j.t \in {"undefined", "null"}

\* a?.f
Get(j, f) ==
    IF IsNullish(j) THEN JUndefined
    ELSE IF j.t = "object" /\ f \in DOMAIN j.v THEN j.v[f]
    ELSE JUndefined

\* a?.[0]
At0(j) ==
    IF IsNullish(j) THEN JUndefined
    ELSE IF j.t = "array" /\ Len(j.v) >= 1 THEN j.v[1]
    ELSE JUndefined

\* JavaScript truthiness of the values that occur
Truthy(j) ==
    /\ ~IsNullish(j)
    /\ (j.t = "string" => j.v # <<>>)

Completion(content) ==
    JObj([choices |-> JArr(<<JObj([message |-> JObj([content |-> content])])>>)])

\* what `await response.json()` can resolve to
LocalBodies ==
    {Completion(JStr(<<"hi">>)),
     Completion(JStr(<<>>)),
     JObj([choices |-> JArr(<<JObj([message |-> JObj([role |-> JStr(<<"assistant">>)])])>>)]),
     JObj([choices |-> JArr(<<JObj([index |-> JStr(<<"0">>)])>>)]),
     JObj([choices |-> JArr(<<>>)]),
     JObj([error |-> JStr(<<"model not found">>)]),
     JNull}

\* data.choices throws a TypeError when data is null
ReadingChoicesThrows(data) == IsNullish(data)

\* data.choices?.[0]?.message?.content || 'Local engine error.'
LocalReplyText(data) ==
    LET content == Get(Get(At0(Get(data, "choices")), "message"), "content")
    IN IF Truthy(content) THEN content.v ELSE <<"Local engine error.">>

\* what ai.models.generateContent can resolve to: its text and the grounding
\* chunks of its first candidate ({} when there are none)
CloudResponses ==
    {[text |-> <<"hi">>, groundingChunks |-> {<<"https://example.com">>}],
     [text |-> <<>>, groundingChunks |-> {}]}

\* text: response.text || 'Empty response'
CloudReply(response) ==
    [role |-> "model",
     text |-> IF response.text # <<>> THEN response.text ELSE <<"Empty response">>,
     groundingChunks |-> response.groundingChunks]

LocalReply(data) == [role |-> "model", text |-> LocalReplyText(data)]

BlameCurrentStore(sentTo) ==
    IF provider = "local"
    THEN "local server is running and CORS is enabled"
    ELSE "API Key is valid"

\* provider === 'local' ? '...' : '...' in the catch block; provider is the
\* value the invocation closed over
LikelyCause(sentTo) ==
    IF sentTo = "local"
    THEN "local server is running and CORS is enabled"
    ELSE "API Key is valid"

ErrorAsUserMessage(sentTo) ==
    [role |-> "user", text |-> <<"Network Error">>]

NetworkErrorMessage(sentTo) ==
    [role |-> "model",
     text |-> <<"Network Error: Verify that your ", LikelyCause(sentTo), ".">>]

OnlyCloud(p, endpoint, modelId, history, text, atts, coding, userName) ==
    CloudRequest(text, atts, coding, userName)

\* if (provider === 'gemini') { ... generateContent ... } else { ... fetch ... }
OutboundRequest(p, endpoint, modelId, history, text, atts, coding, userName) ==
    IF p = "gemini"
    THEN CloudRequest(text, atts, coding, userName)
    ELSE LocalRequest(endpoint, modelId, history, text, coding, userName)

NoRequest == [target |-> "none"]

\* a suspended invocation of sendMessage: the call it awaits and the provider
\* it closed over
Invocation(id, request, p) ==
    [id |-> id,
     stage |-> IF request.target = "gemini" THEN "generateContent" ELSE "fetch",
     sentTo |-> p]

Swallow(msgs, sentTo) == msgs

\* catch (err) { console.error(err); addChatMessage({...}) }
Catch(msgs, sentTo) == addChatMessage(msgs, NetworkErrorMessage(sentTo))

ResetOnSuccessOnly(failed) == IF failed THEN loading ELSE FALSE

\* finally { setLoading(false) }: the value of loading after the dispatch
Finally(failed) == FALSE

(***************************************************************************)
(* Initial state: the defaults of the stores and of the component.         *)
(***************************************************************************)
Agent(id, agentName) == [id |-> id, name |-> agentName]
Paul == Agent("paul", "Paul")
Charlotte == Agent("charlotte", "Charlotte")
Shane == Agent("shane", "Shane")
Penny == Agent("penny", "Penny")
Undefined == [undefined |-> TRUE]

Init ==
    /\ name = ""
    /\ provider = "gemini"
    /\ localEndpoint = <<"http://localhost:11434", "/", "v1">>
    /\ localModelId = "llama3"
    /\ chatMessages = <<>>
    /\ isCodingMode = FALSE
    /\ input = <<>>
    /\ loading = FALSE
    /\ attachments = <<>>
    /\ reading = {}
    /\ inflight = {}
    /\ requests = 0
    /\ lastRequest = NoRequest
    /\ appendCalls = <<>>
    /\ current = Paul
    /\ availablePresets = <<Paul, Charlotte, Shane, Penny>>
    /\ availablePersonal = <<>>
    /\ lastCall = [op |-> "init"]

(***************************************************************************)
(* ChatAssistant: input, attachments and settings handlers.                *)
(***************************************************************************)
\* onChange={(e) => setInput(e.target.value)}
SetInput(text) ==
    /\ input' = text
    /\ UNCHANGED <<name, provider, localEndpoint, localModelId, chatMessages,
                   isCodingMode, loading, attachments, reading, inflight,
                   requests, lastRequest, appendCalls, agentVars, lastCall>>

\* handleFileUpload: one FileReader per selected file.  A file that is being
\* read or is in the buffer is not selected again (this bounds the buffer).
HandleFileUpload(files) ==
    /\ files # {}
    /\ files \cap reading = {}
    /\ \A i \in DOMAIN attachments : \A f \in files : attachments[i].name # f.name
    /\ Len(attachments) + Cardinality(reading) + Cardinality(files) <= MaxAttachments
    /\ reading' = reading \cup files
    /\ UNCHANGED <<name, provider, localEndpoint, localModelId, chatMessages,
                   isCodingMode, input, loading, attachments, inflight,
                   requests, lastRequest, appendCalls, agentVars, lastCall>>

\* reader.onload: setAttachments(prev => [...prev, {...}])
ReaderOnload(file) ==
    /\ file \in reading
    /\ reading' = reading \ {file}
    /\ attachments' = Append(attachments, Attachment(file))
    /\ UNCHANGED <<name, provider, localEndpoint, localModelId, chatMessages,
                   isCodingMode, input, loading, inflight,
                   requests, lastRequest, appendCalls, agentVars, lastCall>>

\* the chip's close button: setAttachments(prev => prev.filter((_, idx) => idx !== i))
RemoveAttachment(i) ==
    /\ i \in 1 .. Len(attachments)
    /\ attachments' = SubSeq(attachments, 1, i - 1)
                      \o SubSeq(attachments, i + 1, Len(attachments))
    /\ UNCHANGED <<name, provider, localEndpoint, localModelId, chatMessages,
                   isCodingMode, input, loading, reading, inflight,
                   requests, lastRequest, appendCalls, agentVars, lastCall>>

\* onClick={() => setCodingMode(!isCodingMode)}
ToggleCodingMode ==
    /\ isCodingMode' = ~isCodingMode
    /\ UNCHANGED <<name, provider, localEndpoint, localModelId, chatMessages,
                   input, loading, attachments, reading, inflight,
                   requests, lastRequest, appendCalls, agentVars, lastCall>>

\* useUser.setName
SetName(n) ==
    /\ name' = n
    /\ UNCHANGED <<provider, localEndpoint, localModelId, chatMessages,
                   isCodingMode, input, loading, attachments, reading, inflight,
                   requests, lastRequest, appendCalls, agentVars, lastCall>>

\* the mutant resets the local settings to their defaults on a switch
SetProviderResetsLocal(p) ==
    /\ provider' = p
    /\ localEndpoint' = <<"http://localhost:11434", "/", "v1">>
    /\ localModelId' = "llama3"
    /\ UNCHANGED <<name, chatMessages,
                   isCodingMode, input, loading, attachments, reading, inflight,
                   requests, lastRequest, appendCalls, agentVars, lastCall>>

\* useConfig.setProvider
SetProvider(p) ==
    /\ provider' = p
    /\ UNCHANGED <<name, localEndpoint, localModelId, chatMessages,
                   isCodingMode, input, loading, attachments, reading, inflight,
                   requests, lastRequest, appendCalls, agentVars, lastCall>>

\* useConfig.setLocalEndpoint
SetLocalEndpoint(e) ==
    /\ localEndpoint' = e
    /\ UNCHANGED <<name, provider, localModelId, chatMessages,
                   isCodingMode, input, loading, attachments, reading, inflight,
                   requests, lastRequest, appendCalls, agentVars, lastCall>>

\* useConfig.setLocalModelId
SetLocalModelId(id) ==
    /\ localModelId' = id
    /\ UNCHANGED <<name, provider, localEndpoint, chatMessages,
                   isCodingMode, input, loading, attachments, reading, inflight,
                   requests, lastRequest, appendCalls, agentVars, lastCall>>

(***************************************************************************)
(* sendMessage, up to its first await.  The early return drops the call;   *)
(* otherwise the user message is appended, input and attachments are       *)
(* cleared, loading is set and the one outbound call of the branch is      *)
(* made.  The invocation then waits for that call.                         *)
(***************************************************************************)
SendDropped ==
    /\ ~CanSend(input, attachments, loading)
    /\ lastCall' = [op |-> "sendMessage", accepted |-> FALSE,
                    blank |-> (Trim(input) = <<>> /\ Len(attachments) = 0),
                    busy |-> loading]
    /\ UNCHANGED <<chatVars, agentVars>>

SendAccepted ==
    /\ CanSend(input, attachments, loading)
    /\ CountRole(chatMessages, "user") < MaxSends
    /\ LET userMsg == UserMessage(input, attachments)
           request == OutboundRequest(provider, localEndpoint, localModelId,
                                      chatMessages, input, attachments,
                                      isCodingMode, name)
       IN /\ chatMessages' = addChatMessage(chatMessages, userMsg)
          /\ appendCalls' = Append(appendCalls, userMsg)
          /\ input' = <<>>
          /\ attachments' = <<>>
          /\ loading' = TRUE
          /\ requests' = requests + 1
          /\ lastRequest' = request
          /\ inflight' = inflight
                 \cup {Invocation(Len(appendCalls) + 1, request, provider)}
    /\ lastCall' = [op |-> "sendMessage", accepted |-> TRUE]
    /\ UNCHANGED <<name, provider, localEndpoint, localModelId, isCodingMode,
                   reading, agentVars>>

\* onSubmit={sendMessage} and the Enter key
SendMessage == SendDropped \/ SendAccepted

(***************************************************************************)
(* sendMessage, after an await.                                            *)
(***************************************************************************)
\* the try block ran to its end: addChatMessage(reply), then finally
Replied(inv, reply, via) ==
    /\ chatMessages' = addChatMessage(chatMessages, reply)
    /\ appendCalls' = Append(appendCalls, reply)
    /\ loading' = Finally(FALSE)
    /\ inflight' = inflight \ {inv}
    /\ lastCall' = [op |-> "settled", failed |-> FALSE, via |-> via]
    /\ UNCHANGED <<name, provider, localEndpoint, localModelId, isCodingMode,
                   input, attachments, reading, requests, lastRequest,
                   agentVars>>

\* the awaited call rejected or the try block threw: catch, then finally
\* (appendCalls grows only if the catch block did call addChatMessage)
Failed(inv, via) ==
    /\ chatMessages' = Catch(chatMessages, inv.sentTo)
    /\ appendCalls' = IF chatMessages' = chatMessages
                      THEN appendCalls
                      ELSE Append(appendCalls, NetworkErrorMessage(inv.sentTo))
    /\ loading' = Finally(TRUE)
    /\ inflight' = inflight \ {inv}
    /\ lastCall' = [op |-> "settled", failed |-> TRUE, via |-> via]
    /\ UNCHANGED <<name, provider, localEndpoint, localModelId, isCodingMode,
                   input, attachments, reading, requests, lastRequest,
                   agentVars>>

\* await ai.models.generateContent(...) resolves
GenerateContentResolves(inv, response) ==
    /\ inv \in inflight
    /\ inv.stage = "generateContent"
    /\ Replied(inv, CloudReply(response), "generateContent resolved")

\* await ai.models.generateContent(...) rejects
GenerateContentRejects(inv) ==
    /\ inv \in inflight
    /\ inv.stage = "generateContent"
    /\ Failed(inv, "generateContent rejected")

\* await fetch(...) resolves (with any HTTP status): response.json() is called
FetchResolves(inv) ==
    /\ inv \in inflight
    /\ inv.stage = "fetch"
    /\ inflight' = (inflight \ {inv}) \cup {[inv EXCEPT !.stage = "json"]}
    /\ UNCHANGED <<name, provider, localEndpoint, localModelId, chatMessages,
                   isCodingMode, input, loading, attachments, reading,
                   requests, lastRequest, appendCalls, agentVars, lastCall>>

\* await fetch(...) rejects: server down, CORS
FetchRejects(inv) ==
    /\ inv \in inflight
    /\ inv.stage = "fetch"
    /\ Failed(inv, "fetch rejected")

\* await response.json() resolves with the parsed body
JsonResolves(inv, data) ==
    /\ inv \in inflight
    /\ inv.stage = "json"
    /\ IF ReadingChoicesThrows(data)
       THEN Failed(inv, "reading choices threw")
       ELSE Replied(inv, LocalReply(data), "json resolved")

\* await response.json() rejects: the body is not valid JSON
JsonRejects(inv) ==
    /\ inv \in inflight
    /\ inv.stage = "json"
    /\ Failed(inv, "json rejected")

Settle ==
    \E inv \in inflight :
        \/ \E response \in CloudResponses : GenerateContentResolves(inv, response)
        \/ GenerateContentRejects(inv)
        \/ FetchResolves(inv)
        \/ FetchRejects(inv)
        \/ \E data \in LocalBodies : JsonResolves(inv, data)
        \/ JsonRejects(inv)

(***************************************************************************)
(* The chat panel with text-only messages: typing, the coding-mode and     *)
(* provider switches, sending, and every completion of an awaited call.    *)
(***************************************************************************)
Next ==
    \/ \E text \in InputTexts : SetInput(text)
    \/ ToggleCodingMode
    \/ \E p \in Providers : SetProvider(p)
    \/ SendMessage
    \/ Settle

Spec == Init /\ [][Next]_vars

(***************************************************************************)
(* The same panel where every awaited call eventually resolves or rejects. *)
(***************************************************************************)
FairSpec == Spec /\ WF_vars(Settle)

(***************************************************************************)
(* The local provider and its settings.                                    *)
(***************************************************************************)
NextLocal ==
    \/ \E text \in InputTexts : SetInput(text)
    \/ \E n \in Names : SetName(n)
    \/ \E p \in Providers : SetProvider(p)
    \/ \E e \in Endpoints : SetLocalEndpoint(e)
    \/ SendMessage
    \/ Settle

SpecLocal == Init /\ [][NextLocal]_vars

(***************************************************************************)
(* The chat panel with attachments, on the cloud provider: typing,         *)
(* selecting files, the file reads completing, removing a chip, sending    *)
(* and the awaited call.                                                   *)
(***************************************************************************)
NextAttach ==
    \/ \E text \in InputTexts : SetInput(text)
    \/ \E files \in SUBSET Files : HandleFileUpload(files)
    \/ \E file \in Files : ReaderOnload(file)
    \/ \E i \in 1 .. MaxAttachments : RemoveAttachment(i)
    \/ SendDropped
    \/ CountRole(chatMessages, "user") < MaxAttachSends /\ SendAccepted
    \/ Settle

SpecAttach == Init /\ [][NextAttach]_vars

(***************************************************************************)
(* The settings of useConfig beside a running conversation.                *)
(***************************************************************************)
NextConfig ==
    \/ \E text \in InputTexts : SetInput(text)
    \/ \E p \in Providers : SetProvider(p)
    \/ \E e \in Endpoints : SetLocalEndpoint(e)
    \/ \E id \in ModelIds : SetLocalModelId(id)
    \/ SendMessage
    \/ Settle

SpecConfig == Init /\ [][NextConfig]_vars

(***************************************************************************)
(* useAgent.  The argument of setCurrent is tagged with what typeof sees:  *)
(* [string |-> id] or [agent |-> a].  A call whose updater throws leaves   *)
(* the store as it was.                                                    *)
(***************************************************************************)
\* Array.prototype.find(agent => agent.id === id)
RECURSIVE Find(_, _)
Find(agents, id) ==
    IF agents = <<>> THEN Undefined
    ELSE IF Head(agents).id = id THEN Head(agents)
    ELSE Find(Tail(agents), id)

getAgentById(id) ==
    LET personal == Find(availablePersonal, id)
    IN IF personal # Undefined THEN personal ELSE Find(availablePresets, id)

\* { ...agent, ...adjustments }
Merge(agent, adjustments) ==
    [f \in DOMAIN agent \cup DOMAIN adjustments |->
        IF f \in DOMAIN adjustments THEN adjustments[f] ELSE agent[f]]

\* a.id === agentId ? updatedAgent : a, over an array
Replace(agents, agentId, updatedAgent) ==
    [i \in 1 .. Len(agents) |->
        IF agents[i].id = agentId THEN updatedAgent ELSE agents[i]]

AddAgent(agent) ==
    /\ Len(availablePersonal) < MaxPersonal
    /\ availablePersonal' = Append(availablePersonal, agent)
    /\ current' = agent
    /\ lastCall' = [op |-> "addAgent", arg |-> agent, threw |-> FALSE]
    /\ UNCHANGED <<availablePresets, chatVars>>

SetCurrent(arg) ==
    /\ current' = IF "string" \in DOMAIN arg
                  THEN getAgentById(arg.string)
                  ELSE arg.agent
    /\ lastCall' = [op |-> "setCurrent", arg |-> arg, threw |-> FALSE]
    /\ UNCHANGED <<availablePresets, availablePersonal, chatVars>>

Update(agentId, adjustments) ==
    LET agent == getAgentById(agentId)
        updatedAgent == Merge(agent, adjustments)
    IN IF agent = Undefined
       THEN \* if (!agent) return
            /\ lastCall' = [op |-> "update", arg |-> agentId,
                            adjustments |-> adjustments, threw |-> FALSE]
            /\ UNCHANGED <<agentVars, chatVars>>
       ELSE IF current = Undefined
       THEN \* state.current.id: TypeError inside the updater
            /\ lastCall' = [op |-> "update", arg |-> agentId,
                            adjustments |-> adjustments, threw |-> TRUE]
            /\ UNCHANGED <<agentVars, chatVars>>
       ELSE /\ availablePresets' = Replace(availablePresets, agentId, updatedAgent)
            /\ availablePersonal' = Replace(availablePersonal, agentId, updatedAgent)
            /\ current' = IF current.id = agentId THEN updatedAgent ELSE current
            /\ lastCall' = [op |-> "update", arg |-> agentId,
                            adjustments |-> adjustments, threw |-> FALSE]
            /\ UNCHANGED chatVars

\* the agents handed to addAgent and setCurrent, the identifiers looked up,
\* the edits made
NewAgents == {Agent("custom", "Mia"), Agent("paul", "Paul II")}
GuestAgents == {Agent("guest", "Guest"), Penny}
AgentIds == {"paul", "penny", "custom", "guest", "nonexistent-id"}
Adjustments == {[name |-> "Renamed"], [name |-> "Again"]}

NextAgent ==
    \/ \E agent \in NewAgents : AddAgent(agent)
    \/ \E id \in AgentIds : SetCurrent([string |-> id])
    \/ \E agent \in GuestAgents : SetCurrent([agent |-> agent])
    \/ \E id \in AgentIds, adjustments \in Adjustments : Update(id, adjustments)

SpecAgent == Init /\ [][NextAgent]_vars

(***************************************************************************)
(* Vocabulary of the properties.                                           *)
(***************************************************************************)
IsPrefix(s, t) == Len(s) <= Len(t) /\ SubSeq(t, 1, Len(s)) = s

Last(s) == s[Len(s)]

Contains(text, token) == \E i \in DOMAIN text : text[i] = token

EndsWithSlash(s) == s # <<>> /\ s[Len(s)] = "/"

\* this step appended exactly one message, of the given role
AppendsOne(role) ==
    /\ Len(chatMessages') = Len(chatMessages) + 1
    /\ IsPrefix(chatMessages, chatMessages')
    /\ Last(chatMessages').role = role

\* this step is an accepted send: the user message was appended
SendStep == AppendsOne("user")

\* this step ended a dispatch
DispatchEnds == Cardinality(inflight') < Cardinality(inflight)

\* this step ended a dispatch on a failure path
DispatchFails ==
    DispatchEnds /\ lastCall'.op = "settled" /\ lastCall'.failed

(***************************************************************************)
(* C1. Single-flight: at most one request is outstanding in any reachable  *)
(* state, and while a send has not completed (loading is set or an         *)
(* invocation is suspended) no step makes an outbound call or appends a    *)
(* user message: the only change to the conversation is the model message  *)
(* that ends the outstanding dispatch.  A send attempted then is dropped.  *)
(***************************************************************************)
C1_SingleFlight ==
    /\ [](Cardinality(inflight) <= 1)
    /\ [][(loading \/ inflight # {}) =>
            /\ requests' = requests
            /\ lastRequest' = lastRequest
            /\ \/ chatMessages' = chatMessages
               \/ DispatchEnds /\ AppendsOne("model")]_vars

\* a send with text to send was attempted while a request was outstanding
C1_Witness ==
    /\ lastCall = [op |-> "sendMessage", accepted |-> FALSE,
                   blank |-> FALSE, busy |-> TRUE]
    /\ inflight # {}
    /\ loading

(***************************************************************************)
(* C2. Guaranteed release: every step that ends a dispatch, by a reply or  *)
(* by any failure, leaves loading false; no invocation means loading is    *)
(* false; and when every awaited call eventually resolves or rejects,      *)
(* loading = TRUE leads to loading = FALSE.                                *)
(***************************************************************************)
C2_LoadingReleased ==
    /\ [][DispatchEnds => ~loading']_vars
    /\ [](inflight = {} => ~loading)
    /\ (loading ~> ~loading)

\* a dispatch ended on the malformed-JSON path with the flag cleared
C2_Witness ==
    /\ lastCall = [op |-> "settled", failed |-> TRUE, via |-> "json rejected"]
    /\ inflight = {}
    /\ ~loading

(***************************************************************************)
(* C3. Every failure of an accepted send ends the dispatch with exactly    *)
(* one appended model-role message and without a second outbound request.  *)
(***************************************************************************)
C3_FailureIsOneModelMessage ==
    [][DispatchFails =>
        /\ AppendsOne("model")
        /\ requests' = requests
        /\ lastRequest' = lastRequest
        /\ inflight' = {}]_vars

\* a failed dispatch: the transcript ends with its error message
C3_Witness ==
    /\ lastCall.op = "settled"
    /\ lastCall.failed
    /\ chatMessages # <<>>
    /\ Last(chatMessages).role = "model"
    /\ Contains(Last(chatMessages).text, "Network Error: Verify that your ")
    /\ requests = 1

(***************************************************************************)
(* C4. setCurrent with an identifier that matches no agent of the personal *)
(* list or the preset list leaves current unchanged.                       *)
(***************************************************************************)
NoAgentHasId(id) ==
    /\ \A i \in DOMAIN availablePersonal : availablePersonal[i].id # id
    /\ \A i \in DOMAIN availablePresets : availablePresets[i].id # id

C4_SetCurrentUnknownKeepsCurrent ==
    [][(/\ lastCall'.op = "setCurrent"
        /\ "string" \in DOMAIN lastCall'.arg
        /\ NoAgentHasId(lastCall'.arg.string))
       => current' = current]_vars

(***************************************************************************)
(* C5. After update(id, {name: v}) with id the id of an agent of the       *)
(* preset list, of the personal list or of current, every agent with that  *)
(* id in the two lists, and current if it has that id, is one and the same *)
(* agent value with name = v.                                              *)
(***************************************************************************)
IdMatches(id) ==
    \/ ~NoAgentHasId(id)
    \/ current # Undefined /\ current.id = id

HoldersOf(id) ==
    {availablePresets'[i] : i \in {j \in DOMAIN availablePresets' :
                                     availablePresets'[j].id = id}}
    \cup {availablePersonal'[i] : i \in {j \in DOMAIN availablePersonal' :
                                           availablePersonal'[j].id = id}}
    \cup (IF current' # Undefined /\ current'.id = id THEN {current'} ELSE {})

C5_UpdateReachesAllThree ==
    [][(lastCall'.op = "update" /\ IdMatches(lastCall'.arg))
       => /\ ~lastCall'.threw
          /\ current' # Undefined
          /\ Cardinality(HoldersOf(lastCall'.arg)) = 1
          /\ \A a \in HoldersOf(lastCall'.arg) :
                a.name = lastCall'.adjustments.name]_vars

(***************************************************************************)
(* C6. The message list is append-only: it always equals the arguments of  *)
(* the addChatMessage calls in call order (so its length is the number of  *)
(* calls), and every step keeps the previous list as a prefix.             *)
(***************************************************************************)
C6_AppendOnly ==
    /\ [](chatMessages = appendCalls)
    /\ [][IsPrefix(chatMessages, chatMessages')]_vars

\* two exchanges, with the provider and coding mode switched meanwhile
C6_Witness ==
    /\ Len(chatMessages) = 4
    /\ provider = "local"
    /\ isCodingMode
    /\ chatMessages[2].role = "model"
    /\ chatMessages[3].role = "user"

(***************************************************************************)
(* C7. Every accepted send issues exactly one outbound request, to the     *)
(* provider active at the send, and gets exactly one model-role message:   *)
(* the requests issued are as many as the user messages, and the model     *)
(* messages plus the dispatches still outstanding are as many too.         *)
(***************************************************************************)
C7_OneRequestPerSend ==
    /\ [](/\ requests = CountRole(chatMessages, "user")
          /\ CountRole(chatMessages, "model") + Cardinality(inflight)
                = CountRole(chatMessages, "user"))
    /\ [][/\ SendStep =>
                /\ requests' = requests + 1
                /\ lastRequest'.target = provider
                /\ lastRequest'.target \in {"gemini", "local"}
          /\ ~SendStep => requests' = requests /\ lastRequest' = lastRequest
          /\ DispatchEnds => AppendsOne("model")]_vars

\* a cloud exchange and a local exchange, both complete
C7_Witness ==
    /\ requests = 2
    /\ inflight = {}
    /\ Len(chatMessages) = 4
    /\ lastRequest.target = "local"
    /\ "groundingChunks" \in DOMAIN chatMessages[2]

(***************************************************************************)
(* C8. When the outbound call of a send fails, the appended model-role     *)
(* message names the precondition of the provider the request was sent to, *)
(* and loading is false afterwards.                                        *)
(***************************************************************************)
C8_ErrorNamesProvider ==
    [][DispatchFails =>
        /\ Last(chatMessages').role = "model"
        /\ lastRequest.target = "gemini" =>
              Contains(Last(chatMessages').text, "API Key is valid")
        /\ lastRequest.target = "local" =>
              Contains(Last(chatMessages').text,
                       "local server is running and CORS is enabled")
        /\ ~loading']_vars

\* a cloud request failed after the provider was switched to local
C8_Witness ==
    /\ lastCall = [op |-> "settled", failed |-> TRUE,
                   via |-> "generateContent rejected"]
    /\ lastRequest.target = "gemini"
    /\ provider = "local"
    /\ Contains(Last(chatMessages).text, "API Key is valid")
    /\ ~loading

(***************************************************************************)
(* C9. With provider = local, the posted message list is the system        *)
(* instruction, then every message stored before the send in store order   *)
(* with roles mapped user -> user and model -> assistant, then the new     *)
(* user text, which appears once: the optimistic message is not replayed.  *)
(***************************************************************************)
C9_LocalMessageList ==
    [][(SendStep /\ provider = "local") =>
        LET posted == lastRequest'.body.messages
        IN /\ lastRequest'.target = "local"
           /\ Len(posted) = Len(chatMessages) + 2
           /\ posted[1] = [role |-> "system",
                           content |-> SystemInstruction(isCodingMode, name)]
           /\ \A i \in DOMAIN chatMessages :
                /\ posted[i + 1].content = chatMessages[i].text
                /\ chatMessages[i].role = "user" => posted[i + 1].role = "user"
                /\ chatMessages[i].role = "model" => posted[i + 1].role = "assistant"
           /\ posted[Len(posted)] = [role |-> "user", content |-> input]]_vars

\* a local send that replayed one earlier exchange
C9_Witness ==
    /\ lastRequest.target = "local"
    /\ Len(lastRequest.body.messages) = 4
    /\ lastRequest.body.messages[2].role = "user"
    /\ lastRequest.body.messages[3].role = "assistant"
    /\ lastRequest.body.messages[4].role = "user"
    /\ Len(chatMessages) >= 3

(***************************************************************************)
(* C10. With provider = local, the request URL is the configured endpoint  *)
(* with its trailing slash stripped, followed by /chat/completions: an     *)
(* endpoint and the same endpoint with a trailing slash added yield the    *)
(* same URL, with no slash right before /chat/completions.                 *)
(***************************************************************************)
WithoutLast(s) == SubSeq(s, 1, Len(s) - 1)

C10_CompletionsUrl ==
    [][(SendStep /\ provider = "local") =>
        LET url == lastRequest'.url
            e == localEndpoint
        IN /\ ~EndsWithSlash(e) => url = e \o <<"/", "chat", "/", "completions">>
           /\ EndsWithSlash(e) =>
                url = WithoutLast(e) \o <<"/", "chat", "/", "completions">>
           /\ (EndsWithSlash(e) /\ ~EndsWithSlash(WithoutLast(e))) =>
                /\ Len(url) = Len(e) + 3
                /\ Len(e) > 1 => url[Len(e) - 1] # "/"
           /\ e = <<"http://localhost:11434", "/", "v1", "/">> =>
                url = <<"http://localhost:11434", "/", "v1",
                        "/", "chat", "/", "completions">>]_vars

\* a request posted while the endpoint ended in a slash
C10_Witness ==
    /\ lastRequest.target = "local"
    /\ inflight # {}
    /\ localEndpoint = <<"http://localhost:11434", "/", "v1", "/">>
    /\ lastRequest.url = <<"http://localhost:11434", "/", "v1",
                           "/", "chat", "/", "completions">>

(***************************************************************************)
(* C11. With provider = local and a response body that parses as JSON, the *)
(* appended model message's text is choices[0].message.content when that   *)
(* field is there and the placeholder when it is not, and the dispatch     *)
(* does not take the failure path.  "There" is read in the claim's favour: *)
(* an empty content counts as absent, as the code's || treats it.          *)
(***************************************************************************)
HasField(j, f) == j.t = "object" /\ f \in DOMAIN j.v

ContentPresent(data) ==
    /\ HasField(data, "choices")
    /\ data.v.choices.t = "array"
    /\ Len(data.v.choices.v) >= 1
    /\ HasField(data.v.choices.v[1], "message")
    /\ HasField(data.v.choices.v[1].v.message, "content")
    /\ data.v.choices.v[1].v.message.v.content.t = "string"
    /\ data.v.choices.v[1].v.message.v.content.v # <<>>

ContentOf(data) == data.v.choices.v[1].v.message.v.content.v

C11_ParsedBodyNeverFails ==
    [][\A inv \in inflight : \A data \in LocalBodies :
          JsonResolves(inv, data) =>
             /\ ~lastCall'.failed
             /\ AppendsOne("model")
             /\ Last(chatMessages').text =
                   IF ContentPresent(data)
                   THEN ContentOf(data)
                   ELSE <<"Local engine error.">>]_vars

(***************************************************************************)
(* C12. With provider = cloud and attachments sent with text t, the parts  *)
(* of the outbound content are one text part, then one inline-data part    *)
(* (MIME type and data) per image attachment in attachment order; the text *)
(* part is t followed by a bracketed file-name mention per non-image       *)
(* attachment in order; the stored user message's text stays t.            *)
(***************************************************************************)
IsImage(att) == att.type # <<>> /\ Head(att.type) = "image/"

IsOtherFile(att) == ~IsImage(att)

panelVars == <<name, chatMessages, isCodingMode, input, loading, attachments,
               inflight, requests, lastRequest>>

C13_SettersChangeOwnField ==
    [][/\ provider' # provider =>
             UNCHANGED <<localEndpoint, localModelId, panelVars>>
       /\ localEndpoint' # localEndpoint =>
             UNCHANGED <<provider, localModelId, panelVars>>
       /\ localModelId' # localModelId =>
             UNCHANGED <<provider, localEndpoint, panelVars>>]_vars

\* back on the cloud provider after a local request, the local settings
\* that were configured are still there, and so is the conversation
C13_Witness ==
    /\ provider = "gemini"
    /\ lastRequest.target = "local"
    /\ lastRequest.body.model = "phi3"
    /\ lastRequest.url = <<"http://localhost:11434", "/", "v1",
                           "/", "chat", "/", "completions">>
    /\ localModelId = "phi3"
    /\ localEndpoint = <<"http://localhost:11434", "/", "v1", "/">>
    /\ Len(chatMessages) >= 2

(***************************************************************************)
(* C14. A send with empty or whitespace-only text and an empty attachment  *)
(* buffer is a no-op: no message, no request, and loading, the pending     *)
(* input and the attachment buffer are unchanged.  A send with such text   *)
(* but at least one attachment (and no send outstanding) is accepted.      *)
(***************************************************************************)
AllWhitespace(text) == \A i \in DOMAIN text : text[i] \in {" ", "\n"}

\* this step is a call of sendMessage
SendAttempt == lastCall' # lastCall /\ lastCall'.op = "sendMessage"

C14_BlankSendIsNoOp ==
    [][SendAttempt =>
        /\ (AllWhitespace(input) /\ Len(attachments) = 0) =>
              /\ ~lastCall'.accepted
              /\ UNCHANGED <<chatMessages, requests, lastRequest, loading,
                             input, attachments, inflight>>
        /\ (AllWhitespace(input) /\ Len(attachments) >= 1 /\ ~loading) =>
              /\ lastCall'.accepted
              /\ AppendsOne("user")
              /\ requests' = requests + 1]_vars

\* a whitespace-only send with nothing attached was attempted and dropped
C14_Witness ==
    /\ lastCall = [op |-> "sendMessage", accepted |-> FALSE,
                   blank |-> TRUE, busy |-> FALSE]
    /\ input = <<" ">>
    /\ attachments = <<>>
    /\ chatMessages = <<>>
    /\ requests = 0
    /\ ~loading

RoleAt(i) == IF i % 2 = 1 THEN "user" ELSE "model"

C16_TranscriptShape ==
    /\ \A i \in DOMAIN chatMessages : chatMessages[i].role = RoleAt(i)
    /\ loading =>
          CountRole(chatMessages, "user")
              = CountRole(chatMessages, "model") + 1
    /\ ~loading =>
          CountRole(chatMessages, "user") = CountRole(chatMessages, "model")

\* a second send is outstanding after a first one that failed
C16_Witness ==
    /\ loading
    /\ Len(chatMessages) = 3
    /\ chatMessages[2] = NetworkErrorMessage("gemini")
    /\ chatMessages[3].role = "user"
    /\ inflight # {}

====
